---- MODULE Spec2Model ----
(***************************************************************************)
(* A model of bms_parser: BmsChart::compile and update_objects (chart.rs), *)
(* BmsNotes::generate and find_seconds (notes.rs), generate_timings        *)
(* (timing.rs).                                                            *)
(*                                                                         *)
(* Text is modelled character by character where the code decodes it: a    *)
(* character is its base-36 digit value 0..35, a two-character id or grid  *)
(* pair is a pair of digits.  A position inside a measure is the exact     *)
(* fraction i/divisions, kept in lowest terms.                             *)
(***************************************************************************)
EXTENDS Integers, Sequences, FiniteSets, TLC

VARIABLES
    sortImpl,         \* the comparison slice::sort consults, known once it has run
    rng,              \* the random source handed to compile
    rng_stack,        \* compile: rng_stack
    skip_stack,       \* compile: skip_stack
    headers,          \* chart.headers (key folded by UniCase)
    objects,          \* chart.objects
    time_signatures,  \* chart.time_signatures
    pc,               \* position of the running call
    line,             \* compile: kind of the line just read, with the number of a
                      \* #RANDOM / #IF and the count of values (0, 1) of a header
    exPos,            \* how many lines of ExampleLines the input so far matches
    gen_objects,      \* generate: the local `objects`, filtered and sorted
    notes,            \* BmsNotes.notes
    origins,          \* for each note the index in gen_objects it was made from
    bpm_changes,      \* BmsTiming.bpm_changes
    stops,            \* BmsTiming.stops
    scroll_changes,   \* BmsTiming.scroll_changes
    events,           \* find_seconds: events
    next_event,       \* find_seconds: how many events the iterator has yielded
    current_quarter_note_duration,
    offset_time_quarter_notes,
    offset_time_seconds,
    hit_times         \* BmsNotes.hit_times

noteVars == <<gen_objects, notes, origins>>
sweepVars == <<bpm_changes, stops, scroll_changes, events, next_event, current_quarter_note_duration,
               offset_time_quarter_notes, offset_time_seconds, hit_times>>

----------------------------------------------------------------------------
(* Bounds *)
MaxDepth == 2        \* open #RANDOM / #IF blocks
MaxGridObjects == 2  \* objects the grid lines of one source push
MaxObjects == 3      \* objects in a list handed to update_objects
MaxChartObjects == 3 \* objects of a chart handed to generate
MaxNotes == 2        \* notes handed to find_seconds
MaxTimingObjects == 2 \* objects of a chart handed to generate_timings

\* a decimal literal \d+ whose value does not fit in 32 bits
TooLong == -1

----------------------------------------------------------------------------
(* Helpers *)
RECURSIVE GCD(_, _)
GCD(a, b) == IF b = 0 THEN a ELSE GCD(b, a % b)

Last(s) == s[Len(s)]
Pop(s) == IF s = <<>> THEN s ELSE SubSeq(s, 1, Len(s) - 1)
EmptyMap == [k \in {} |-> 0]

\* u16::from_str_radix(text, 36) of a two-character text
FromStrRadix36(pair) == pair[1] * 36 + pair[2]

\* u32::from_str_radix(text, 10): fails when the digits exceed the width
ParseU32Ok(n) == n # TooLong

----------------------------------------------------------------------------
(* BmsTime and BmsObject *)

\* BmsTime { measure, fraction }: fraction = (1.0 / divisions) * i
BmsTime(measure, i, divisions) ==
    LET g == GCD(i, divisions)
    IN  [measure |-> measure, num |-> i \div g, den |-> divisions \div g]

\* derived Ord of BmsTime: measure, then fraction
BmsTime_lt(a, b) ==
    \/ a.measure < b.measure
    \/ a.measure = b.measure /\ a.num * b.den < b.num * a.den

\* impl PartialEq for BmsObject
BmsObject_eq(a, b) == a.channel = b.channel /\ a.time = b.time

\* impl PartialOrd for BmsObject: "Less", "Equal", "Greater" or "None"
BmsObject_partial_cmp(a, b) ==
    IF a.time = b.time
    THEN IF a.value = b.value /\ a.channel = b.channel THEN "Equal" ELSE "None"
    ELSE IF BmsTime_lt(a.time, b.time) THEN "Less" ELSE "Greater"

\* PartialOrd::lt, the provided method
BmsObject_lt(a, b) == BmsObject_partial_cmp(a, b) = "Less"

\* #[derive(Ord)] on BmsObject: channel, then time, then value
BmsObject_cmp_lt(a, b) ==
    \/ a.channel < b.channel
    \/ a.channel = b.channel /\ BmsTime_lt(a.time, b.time)
    \/ a.channel = b.channel /\ a.time = b.time /\ a.value < b.value

\* The comparison slice::sort consults.  The type's Ord and PartialOrd
\* disagree, so the outcome depends on which of the two the library calls.
IsLess(impl, a, b) ==
    IF impl = "lt" THEN BmsObject_lt(a, b) ELSE BmsObject_cmp_lt(a, b)

\* an insertion that puts x in front of the elements it ties with
RECURSIVE InsertSortedBeforeTies(_, _, _)
InsertSortedBeforeTies(impl, x, s) ==
    IF s = <<>> THEN <<x>>
    ELSE IF ~IsLess(impl, Head(s), x) THEN <<x>> \o s
    ELSE <<Head(s)>> \o InsertSortedBeforeTies(impl, x, Tail(s))

\* insert x behind every element that is not greater than x (stable)
RECURSIVE InsertSorted(_, _, _)
InsertSorted(impl, x, s) ==
    IF s = <<>> THEN <<x>>
    ELSE IF IsLess(impl, x, Head(s)) THEN <<x>> \o s
    ELSE <<Head(s)>> \o InsertSorted(impl, x, Tail(s))

\* slice::sort, a stable sort
RECURSIVE SortFrom(_, _, _)
SortFrom(impl, s, acc) ==
    IF s = <<>> THEN acc
    ELSE SortFrom(impl, Tail(s), InsertSorted(impl, Head(s), acc))

Sort(impl, s) == SortFrom(impl, s, <<>>)

\* a closure without the exemption of channel 01
SameBucketAnyChannel(a, b) == BmsObject_eq(a, b)

\* the closure of dedup_by: a is the element looked at, b the last one kept
SameBucket(a, b) == BmsObject_eq(a, b) /\ a.channel # 1 /\ b.channel # 1

\* Vec::dedup_by: drops an element when it is in the bucket of the last kept
RECURSIVE DedupFrom(_, _)
DedupFrom(s, acc) ==
    IF s = <<>> THEN acc
    ELSE IF acc # <<>> /\ SameBucket(Head(s), Last(acc))
         THEN DedupFrom(Tail(s), acc)
         ELSE DedupFrom(Tail(s), Append(acc, Head(s)))

\* BmsChart::update_objects
UpdateObjects(impl, s) == DedupFrom(Sort(impl, s), <<>>)

----------------------------------------------------------------------------
(* BmsChart::compile, one action per kind of line *)

InvalidChar == 36                       \* a character that is no base-36 digit
NoValue == <<InvalidChar>>              \* capture group 2 did not participate

RandomArgs == {1, 2, TooLong}
IfArgs == {1, 2, TooLong}
Measures == {0}
ChannelIds == {<<1, 1>>, <<1, 2>>, <<InvalidChar, InvalidChar>>}
GridStrings == {<< <<0, 1>> >>, << <<0, 0>>, <<0, 1>> >>, << <<0, 0>> >>}
TimeSignatureTexts == {[ok |-> TRUE, val |-> 2], [ok |-> FALSE, val |-> 0]}
HeaderNames == {"LNOBJ", "lnobj"}
HeaderValues == {<<0, 2>>, NoValue}

\* UniCase: keys compare without regard to case
UniCase(name) == IF name \in {"LNOBJ", "lnobj"} THEN "lnobj" ELSE name

Line(kind, a, b, c) == [kind |-> kind, a |-> a, b |-> b, c |-> c]

\* #RANDOM 2 / #IF 1 / #00011:01 / #ENDIF / #IF 2 / #00012:01 / #ENDIF / #ENDRANDOM
ExampleLines ==
    << Line("random", 2, 0, 0),
       Line("if", 1, 0, 0),
       Line("channel", 0, <<1, 1>>, << <<0, 1>> >>),
       Line("endif", 0, 0, 0),
       Line("if", 2, 0, 0),
       Line("channel", 0, <<1, 2>>, << <<0, 1>> >>),
       Line("endif", 0, 0, 0),
       Line("endrandom", 0, 0, 0) >>

SameLine(l, e) ==
    /\ l.kind = e.kind
    /\ l.a = e.a
    /\ l.b = e.b
    /\ l.c = e.c

\* the loop `for line in data.trim().lines()` takes the next line
TakeLine(l) ==
    /\ line' = [kind |-> l.kind,
                arg |-> IF l.kind \in {"random", "if"} THEN l.a
                        ELSE IF l.kind = "header" /\ l.b # NoValue THEN 1
                        ELSE 0]
    /\ exPos' = IF /\ exPos >= 0
                   /\ exPos < Len(ExampleLines)
                   /\ SameLine(l, ExampleLines[exPos + 1])
                THEN exPos + 1
                ELSE -1

\* skipping while the condition of any open #IF failed
SkippingAny == \E i \in 1 .. Len(skip_stack) : skip_stack[i]

\* skipping read from the outermost open #IF instead
SkippingOutermost == skip_stack # <<>> /\ Head(skip_stack)

\* let skipping = *skip_stack.last().unwrap_or(&false)
Skipping == skip_stack # <<>> /\ Last(skip_stack)

\* the objects a grid line pushes, in the order of its pairs
RECURSIVE GridObjects(_, _, _, _)
GridObjects(measure, channel, pairs, i) ==
    IF i >= Len(pairs) THEN <<>>
    ELSE LET value == FromStrRadix36(pairs[i + 1])
             rest == GridObjects(measure, channel, pairs, i + 1)
         IN  IF value # 0
             THEN <<[channel |-> channel,
                     time |-> BmsTime(measure, i, Len(pairs)),
                     value |-> value]>> \o rest
             ELSE rest

ReadRandom(n) ==
    /\ UNCHANGED <<noteVars, sweepVars>>
    /\ pc = "lines"
    /\ TakeLine(Line("random", n, 0, 0))
    /\ IF ParseU32Ok(n)
       THEN /\ Len(rng_stack) < MaxDepth
            /\ rng_stack' = Append(rng_stack, rng[n])
            /\ pc' = pc
       ELSE /\ pc' = "ret_none"
            /\ UNCHANGED rng_stack
    /\ UNCHANGED <<sortImpl, rng, skip_stack, headers, objects, time_signatures>>

ReadEndRandom ==
    /\ UNCHANGED <<noteVars, sweepVars>>
    /\ pc = "lines"
    /\ TakeLine(Line("endrandom", 0, 0, 0))
    /\ rng_stack' = Pop(rng_stack)
    /\ UNCHANGED <<sortImpl, rng, skip_stack, headers, objects, time_signatures, pc>>

\* #IF that takes 0 for the top of an empty random stack
ReadIfNoCheck(v) ==
    /\ UNCHANGED <<noteVars, sweepVars>>
    /\ pc = "lines"
    /\ TakeLine(Line("if", v, 0, 0))
    /\ IF ~ParseU32Ok(v)
       THEN /\ pc' = "ret_none"
            /\ UNCHANGED skip_stack
       ELSE /\ Len(skip_stack) < MaxDepth
            /\ skip_stack' = Append(skip_stack,
                                    (IF rng_stack = <<>> THEN 0 ELSE Last(rng_stack)) # v)
            /\ pc' = pc
    /\ UNCHANGED <<sortImpl, rng, rng_stack, headers, objects, time_signatures>>

ReadIf(v) ==
    /\ UNCHANGED <<noteVars, sweepVars>>
    /\ pc = "lines"
    /\ TakeLine(Line("if", v, 0, 0))
    /\ IF ~ParseU32Ok(v)
       THEN /\ pc' = "ret_none"
            /\ UNCHANGED skip_stack
       ELSE IF rng_stack = <<>>
       THEN /\ pc' = "ret_none_if"
            /\ UNCHANGED skip_stack
       ELSE /\ Len(skip_stack) < MaxDepth
            /\ skip_stack' = Append(skip_stack, Last(rng_stack) # v)
            /\ pc' = pc
    /\ UNCHANGED <<sortImpl, rng, rng_stack, headers, objects, time_signatures>>

ReadEndIf ==
    /\ UNCHANGED <<noteVars, sweepVars>>
    /\ pc = "lines"
    /\ TakeLine(Line("endif", 0, 0, 0))
    /\ skip_stack' = Pop(skip_stack)
    /\ UNCHANGED <<sortImpl, rng, rng_stack, headers, objects, time_signatures, pc>>

ReadTimeSignature(measure, text) ==
    /\ UNCHANGED <<noteVars, sweepVars>>
    /\ pc = "lines"
    /\ TakeLine(Line("timesig", measure, text, 0))
    /\ IF Skipping
       THEN UNCHANGED <<time_signatures, pc>>
       ELSE IF text.ok
       THEN /\ time_signatures' = (measure :> text.val) @@ time_signatures
            /\ pc' = pc
       ELSE /\ pc' = "ret_none"
            /\ UNCHANGED time_signatures
    /\ UNCHANGED <<sortImpl, rng, rng_stack, skip_stack, headers, objects>>

ReadChannel(measure, id, pairs) ==
    /\ UNCHANGED <<noteVars, sweepVars>>
    /\ pc = "lines"
    /\ TakeLine(Line("channel", measure, id, pairs))
    /\ IF Skipping
       THEN UNCHANGED <<objects, pc>>
       ELSE IF id[1] = InvalidChar \/ id[2] = InvalidChar
       THEN /\ pc' = "ret_none"
            /\ UNCHANGED objects
       ELSE LET new == GridObjects(measure, FromStrRadix36(id), pairs, 0)
            IN  /\ Len(objects) + Len(new) <= MaxGridObjects
                /\ objects' = objects \o new
                /\ pc' = pc
    /\ UNCHANGED <<sortImpl, rng, rng_stack, skip_stack, headers, time_signatures>>

ReadHeader(name, value) ==
    /\ UNCHANGED <<noteVars, sweepVars>>
    /\ pc = "lines"
    /\ TakeLine(Line("header", name, value, 0))
    /\ IF Skipping
       THEN UNCHANGED <<headers, pc>>
       ELSE IF value = NoValue
       THEN /\ pc' = "panic"              \* &captures[2] of an absent group
            /\ UNCHANGED headers
       ELSE /\ headers' = (UniCase(name) :> value) @@ headers
            /\ pc' = pc
    /\ UNCHANGED <<sortImpl, rng, rng_stack, skip_stack, objects, time_signatures>>

\* a line no expression matches
ReadOther ==
    /\ UNCHANGED <<noteVars, sweepVars>>
    /\ pc = "lines"
    /\ TakeLine(Line("other", 0, 0, 0))
    /\ UNCHANGED <<sortImpl, rng, rng_stack, skip_stack, headers, objects,
                   time_signatures, pc>>

\* The build decides which comparison slice::sort consults; every sort of one
\* run consults the same one.
SortChoices == IF sortImpl = "unset" THEN {"lt", "cmp"} ELSE {sortImpl}

\* end of input: chart.update_objects(); Some(chart)
ReturnChart ==
    /\ UNCHANGED <<noteVars, sweepVars>>
    /\ pc = "lines"
    /\ sortImpl' \in SortChoices
    /\ objects' = UpdateObjects(sortImpl', objects)
    /\ pc' = "ret_some"
    /\ line' = [kind |-> "eof", arg |-> 0]
    /\ UNCHANGED <<rng, rng_stack, skip_stack, headers, time_signatures, exPos>>

vars == <<sortImpl, rng, rng_stack, skip_stack, headers, objects, time_signatures,
          pc, line, exPos, noteVars, sweepVars>>

\* no notes generated, no sweep started
NotesIdle ==
    /\ gen_objects = <<>>
    /\ notes = <<>>
    /\ origins = <<>>

SweepIdle ==
    /\ bpm_changes = EmptyMap
    /\ stops = EmptyMap
    /\ scroll_changes = EmptyMap
    /\ events = <<>>
    /\ next_event = 0
    /\ current_quarter_note_duration = 0
    /\ offset_time_quarter_notes = 0
    /\ offset_time_seconds = 0
    /\ hit_times = <<>>

CompileIdle ==
    /\ rng = [n \in {1, 2} |-> n]
    /\ rng_stack = <<>>
    /\ skip_stack = <<>>
    /\ line = [kind |-> "none", arg |-> 0]
    /\ exPos = -1

\* rng: fn(max_value) -> u32 with a result in 1..=max_value
RandomSources == {f \in [{1, 2} -> {1, 2}] : \A n \in {1, 2} : f[n] <= n}

Init ==
    /\ sortImpl = "unset"
    /\ rng \in RandomSources
    /\ rng_stack = <<>>
    /\ skip_stack = <<>>
    /\ headers = EmptyMap
    /\ objects = <<>>
    /\ time_signatures = EmptyMap
    /\ pc = "lines"
    /\ line = [kind |-> "none", arg |-> 0]
    /\ exPos = 0
    /\ NotesIdle
    /\ SweepIdle

Next ==
    \/ \E n \in RandomArgs : ReadRandom(n)
    \/ ReadEndRandom
    \/ \E v \in IfArgs : ReadIf(v)
    \/ ReadEndIf
    \/ \E m \in Measures, t \in TimeSignatureTexts : ReadTimeSignature(m, t)
    \/ \E m \in Measures, id \in ChannelIds, p \in GridStrings : ReadChannel(m, id, p)
    \/ \E n \in HeaderNames, v \in HeaderValues : ReadHeader(n, v)
    \/ ReadOther
    \/ ReturnChart

Spec == Init /\ [][Next]_vars

----------------------------------------------------------------------------
(* A caller that edits chart.objects and calls update_objects *)

ObjChannels == {1, 37, 38}
ObjTimes == {BmsTime(0, 0, 1), BmsTime(0, 1, 2)}
ObjValues == {1, 2}
ObjUniverse == [channel : ObjChannels, time : ObjTimes, value : ObjValues]

\* chart.objects.push(o)
PushObject(o) ==
    /\ UNCHANGED <<noteVars, sweepVars>>
    /\ pc \in {"edited", "normalized"}
    /\ Len(objects) < MaxObjects
    /\ objects' = Append(objects, o)
    /\ pc' = "edited"
    /\ UNCHANGED <<sortImpl, rng, rng_stack, skip_stack, headers, time_signatures,
                   line, exPos>>

\* chart.update_objects()
CallUpdateObjects ==
    /\ UNCHANGED <<noteVars, sweepVars>>
    /\ pc \in {"edited", "normalized"}
    /\ sortImpl' \in SortChoices
    /\ objects' = UpdateObjects(sortImpl', objects)
    /\ pc' = "normalized"
    /\ UNCHANGED <<rng, rng_stack, skip_stack, headers, time_signatures, line, exPos>>

InitObjects ==
    /\ sortImpl = "unset"
    /\ headers = EmptyMap
    /\ objects = <<>>
    /\ time_signatures = EmptyMap
    /\ pc = "edited"
    /\ CompileIdle
    /\ NotesIdle
    /\ SweepIdle

NextObjects ==
    \/ \E o \in ObjUniverse : PushObject(o)
    \/ CallUpdateObjects

SpecObjects == InitObjects /\ [][NextObjects]_vars

----------------------------------------------------------------------------
(* Properties of compile *)

HasChannel(s, c) == \E i \in 1 .. Len(s) : s[i].channel = c

\* C1: #RANDOM n pushes rng(n), #ENDRANDOM pops the random stack, #IF v pushes
\* (top of the random stack # v) on the skip stack, #ENDIF pops it, and a
\* time-signature, grid or header line changes the chart only when the skip
\* stack is empty or its top is false; the eight example lines, compiled with
\* a random source that returns 1, give an object on channel 11 (37) and none
\* on channel 12 (38).
C1_ConditionalCompilation ==
    /\ [][ /\ (line'.kind = "random" /\ pc' = "lines")
              => rng_stack' = Append(rng_stack, rng[line'.arg])
           /\ line'.kind = "endrandom"
              => rng_stack' = (IF rng_stack = <<>> THEN <<>>
                               ELSE SubSeq(rng_stack, 1, Len(rng_stack) - 1))
           /\ (line'.kind = "if" /\ pc' = "lines")
              => skip_stack' = Append(skip_stack, rng_stack[Len(rng_stack)] # line'.arg)
           /\ line'.kind = "endif"
              => skip_stack' = (IF skip_stack = <<>> THEN <<>>
                                ELSE SubSeq(skip_stack, 1, Len(skip_stack) - 1))
           /\ (/\ line'.kind \in {"timesig", "channel", "header"}
               /\ <<headers, objects, time_signatures>>' # <<headers, objects, time_signatures>>)
              => (skip_stack = <<>> \/ ~skip_stack[Len(skip_stack)])
         ]_vars
    /\ []((pc = "ret_some" /\ exPos = Len(ExampleLines) /\ rng[2] = 1)
          => (HasChannel(objects, 37) /\ ~HasChannel(objects, 38)))

\* the example has been compiled with a random source returning 1
C1_Witness ==
    /\ pc = "ret_some"
    /\ exPos = Len(ExampleLines)
    /\ rng[2] = 1
    /\ HasChannel(objects, 37)

\* C2: a #IF read while the random stack is empty makes compile return None
C2_IfWithoutRandomFails ==
    (line.kind = "if" /\ rng_stack = <<>>) => pc \in {"ret_none", "ret_none_if"}

\* a #IF was read with no #RANDOM open after objects had been compiled
C2_Witness ==
    /\ line.kind = "if"
    /\ rng_stack = <<>>
    /\ pc = "ret_none_if"
    /\ objects # <<>>

\* C15: a header line that is a name only, read while not skipping, does not
\* make compile fail or abort: compile goes on to the next line
C15_HeaderWithoutValueAccepted ==
    (line.kind = "header" /\ line.arg = 0 /\ ~Skipping) => pc = "lines"

\* C19 as stated: a chart line changes the chart only when the condition of
\* every open #IF block holds
C19_AllOpenIfsDecide ==
    [][(/\ line'.kind \in {"timesig", "channel", "header"}
        /\ <<headers, objects, time_signatures>>' # <<headers, objects, time_signatures>>)
       => \A i \in 1 .. Len(skip_stack) : ~skip_stack[i]]_vars

\* C19 amended: the innermost open #IF block alone decides.  A header line with
\* a value is stored exactly when no #IF is open or the condition of the
\* innermost one holds, and a grid or time-signature line changes the chart
\* only then, whatever the conditions of the enclosing blocks
C19_InnermostIfDecides ==
    [][/\ (line'.kind = "header" /\ line'.arg = 1)
          => IF skip_stack = <<>> \/ ~skip_stack[Len(skip_stack)]
             THEN "lnobj" \in DOMAIN headers'
             ELSE headers' = headers
       /\ (/\ line'.kind \in {"timesig", "channel"}
           /\ <<objects, time_signatures>>' # <<objects, time_signatures>>)
          => (skip_stack = <<>> \/ ~skip_stack[Len(skip_stack)])
      ]_vars

\* a header line was stored inside a #IF whose condition holds, nested in a
\* #IF whose condition failed
C19_Witness ==
    /\ skip_stack = <<TRUE, FALSE>>
    /\ line.kind = "header"
    /\ line.arg = 1
    /\ "lnobj" \in DOMAIN headers
    /\ objects = <<>>

----------------------------------------------------------------------------
(* Properties of update_objects *)

Normalized == pc \in {"ret_some", "normalized"}

\* C3: after a successful compile and after update_objects, objects is ordered
\* by position, ties broken by channel, then by value
C3_SortedByPositionChannelValue ==
    Normalized =>
        \A i \in 1 .. Len(objects) - 1 :
            LET a == objects[i]
                b == objects[i + 1]
            IN  \/ BmsTime_lt(a.time, b.time)
                \/ /\ a.time = b.time
                   /\ \/ a.channel < b.channel
                      \/ a.channel = b.channel /\ a.value <= b.value

\* C4: after a successful compile and after update_objects, no two entries have
\* the same (channel, position) unless the channel is 01
C4_NoDuplicatesOutsideBgm ==
    Normalized =>
        \A i, j \in 1 .. Len(objects) :
            (i # j /\ objects[i].channel = objects[j].channel
                   /\ objects[i].time = objects[j].time)
            => objects[i].channel = 1

Count(s, o) == Cardinality({i \in 1 .. Len(s) : s[i] = o})

\* C5: update_objects never removes a channel-01 object
C5_BgmRetained ==
    [][pc' = "normalized"
       => \A o \in ObjUniverse : o.channel = 1 => Count(objects', o) = Count(objects, o)]_vars

\* two channel-01 objects with one position and one value survive normalisation
C5_Witness ==
    /\ pc = "normalized"
    /\ \E i, j \in 1 .. Len(objects) :
          /\ i < j
          /\ objects[i].channel = 1
          /\ objects[i] = objects[j]

\* C16: update_objects applied to a list it has already normalised gives the
\* same sequence: sort and dedup twice equal sort and dedup once
C16_NormalizationIdempotent ==
    pc = "normalized" => UpdateObjects(sortImpl, objects) = objects

\* a normalised list that keeps objects of two channels at one position, the
\* higher channel first, and two channel-01 objects at one position
C16_Witness ==
    /\ pc = "normalized"
    /\ Len(objects) = 3
    /\ objects[1].time = objects[2].time
    /\ objects[1].channel > objects[2].channel
    /\ objects[2].channel = 1
    /\ objects[3].channel = 1
    /\ objects[2].time = objects[3].time

----------------------------------------------------------------------------
(* BmsNotes::generate *)

\* const RANGES, index j of the code is j + 1 here
RANGES ==
    << [start |-> 1, end |-> 1],       \* BGM: 01
       [start |-> 37, end |-> 71],     \* 1P Visible: 11..=1Z
       [start |-> 73, end |-> 107],    \* 2P Visible: 21..=2Z
       [start |-> 109, end |-> 143],   \* 1P Invisible: 31..=3Z
       [start |-> 145, end |-> 179],   \* 2P Invisible: 41..=4Z
       [start |-> 181, end |-> 215],   \* 1P Longnote: 51..=5Z
       [start |-> 217, end |-> 251],   \* 2P Longnote: 61..=6Z
       [start |-> 469, end |-> 477],   \* 1P Landmine: D1..=D9
       [start |-> 505, end |-> 513] >> \* 2P Landmine: E1..=E9

\* RANGES[j].contains(&channel)
Contains(j, channel) == RANGES[j + 1].start <= channel /\ channel <= RANGES[j + 1].end

\* RANGES[j].len()
RangeLen(j) == RANGES[j + 1].end - RANGES[j + 1].start + 1

\* the range index the first loop ends with, -1 when no range contains it
RangeOf(channel) ==
    IF \E j \in 0 .. 8 : Contains(j, channel)
    THEN CHOOSE j \in 0 .. 8 : Contains(j, channel)
    ELSE -1

\* u16::from_str_radix(text, 36): -1 stands for Err
RECURSIVE Radix36From(_, _)
Radix36From(text, acc) ==
    IF text = <<>> THEN acc
    ELSE IF Head(text) >= 36 \/ acc * 36 + Head(text) > 65535 THEN -1
    ELSE Radix36From(Tail(text), acc * 36 + Head(text))

ParseRadix36(text) == IF text = <<>> THEN -1 ELSE Radix36From(text, 0)

\* chart.headers.get("LNOBJ").unwrap_or("/"), decoded
Lnobj(h) == IF "lnobj" \in DOMAIN h THEN ParseRadix36(h["lnobj"]) ELSE ParseRadix36(<<InvalidChar>>)

\* iter().position(pred): the first index that satisfies pred, 0 when none does
FirstOf(S) == IF S = {} THEN 0 ELSE CHOOSE i \in S : \A j \in S : i <= j
LastOf(S) == IF S = {} THEN 0 ELSE CHOOSE i \in S : \A j \in S : i >= j

\* the last later marker instead of the first
LnobjEndIndexFarthest(objs, object, lnobj) ==
    LastOf({k \in 1 .. Len(objs) :
               /\ objs[k].channel = object.channel
               /\ objs[k].value = lnobj
               /\ BmsTime_lt(object.time, objs[k].time)})

\* a search for the marker that does not look at the channel
LnobjEndIndexAnyChannel(objs, object, lnobj) ==
    FirstOf({k \in 1 .. Len(objs) :
               /\ objs[k].value = lnobj
               /\ BmsTime_lt(object.time, objs[k].time)})

\* position(|e| e.channel == object.channel && e.value == lnobj && e.time > object.time)
LnobjEndIndex(objs, object, lnobj) ==
    FirstOf({k \in 1 .. Len(objs) :
               /\ objs[k].channel = object.channel
               /\ objs[k].value = lnobj
               /\ BmsTime_lt(object.time, objs[k].time)})

\* a search that accepts an equal time
NextSameIndexNotStrict(objs, object) ==
    FirstOf({k \in 1 .. Len(objs) :
               /\ objs[k].channel = object.channel
               /\ objs[k].value = object.value
               /\ ~BmsTime_lt(objs[k].time, object.time)})

\* position(|e| e.channel == object.channel && e.value == object.value && e.time > object.time)
NextSameIndex(objs, object) ==
    FirstOf({k \in 1 .. Len(objs) :
               /\ objs[k].channel = object.channel
               /\ objs[k].value = object.value
               /\ BmsTime_lt(object.time, objs[k].time)})

\* lanes of 2P without the width of the 1P range
LaneNoOffset(j1, j2, channel) ==
    IF Contains(j1, channel) THEN channel - RANGES[j1 + 1].start
    ELSE IF Contains(j2, channel) THEN channel - RANGES[j2 + 1].start
    ELSE 0

\* the lane of a channel of the ranges j1 (1P) and j2 (2P)
Lane(j1, j2, channel) ==
    IF Contains(j1, channel) THEN channel - RANGES[j1 + 1].start
    ELSE IF Contains(j2, channel) THEN channel - RANGES[j2 + 1].start + RangeLen(j1)
    ELSE 0

\* BmsNote; keysound holds the damage of a Mine, end_time is ZERO unless Long
BmsNote(time, lane, kind, keysound, end_time) ==
    [time |-> time, lane |-> lane, kind |-> kind, keysound |-> keysound,
     end_time |-> end_time]
NoNote == [emit |-> FALSE]
Note(time, lane, kind, keysound, end_time) ==
    [emit |-> TRUE, note |-> BmsNote(time, lane, kind, keysound, end_time)]
ZERO == [measure |-> 0, num |-> 0, den |-> 1]

\* one pass of 'mainloop for objects[i]
NoteOf(objs, i, lnobj) ==
    LET object == objs[i]
        j == RangeOf(object.channel)
    IN  IF j = 0 THEN Note(object.time, 0, "BGM", object.value, ZERO)
        ELSE IF j \in {1, 2} THEN
            IF lnobj # -1 /\ object.value = lnobj THEN NoNote
            ELSE LET lane == Lane(1, 2, object.channel)
                     ln_end_idx == IF lnobj # -1 /\ object.value # lnobj
                                   THEN LnobjEndIndex(objs, object, lnobj)
                                   ELSE 0
                 IN  IF ln_end_idx # 0
                     THEN Note(object.time, lane, "Long", object.value, objs[ln_end_idx].time)
                     ELSE Note(object.time, lane, "Normal", object.value, ZERO)
        ELSE IF j \in {3, 4} THEN
            Note(object.time, Lane(3, 4, object.channel), "Hidden", object.value, ZERO)
        ELSE IF j \in {5, 6} THEN
            LET next_idx == NextSameIndex(objs, object)
            IN  IF next_idx # 0
                THEN Note(object.time, Lane(5, 6, object.channel), "Long", object.value,
                          objs[next_idx].time)
                ELSE NoNote
        ELSE IF j \in {7, 8} THEN
            Note(object.time, Lane(7, 8, object.channel), "Mine", object.value \div 2, ZERO)
        ELSE Note(object.time, 0, "Normal", 0, ZERO)

\* the indices of objs for which 'mainloop pushes a note, in order
EmittedFrom(objs, lnobj) ==
    SelectSeq([i \in 1 .. Len(objs) |-> i], LAMBDA i : NoteOf(objs, i, lnobj).emit)

\* BmsNotes::generate(chart)
Generate ==
    /\ pc = "chart"
    /\ sortImpl' \in SortChoices
    /\ \E lnobj \in {Lnobj(headers)} :
       \E sorted \in {Sort(sortImpl', SelectSeq(objects, LAMBDA o : RangeOf(o.channel) # -1))} :
       \E emitted \in {EmittedFrom(sorted, lnobj)} :
          /\ gen_objects' = sorted
          /\ origins' = emitted
          /\ notes' = [k \in 1 .. Len(emitted) |-> NoteOf(sorted, emitted[k], lnobj).note]
    /\ pc' = "generated"
    /\ UNCHANGED <<rng, rng_stack, skip_stack, headers, objects, time_signatures,
                   line, exPos, sweepVars>>

T0 == BmsTime(0, 0, 1)
T1 == BmsTime(0, 1, 2)
T2 == BmsTime(1, 0, 1)

\* charts of a few objects on two visible channels and a long-note channel
NoteUniverse == [channel : {37, 38, 181}, time : {T0, T1, T2}, value : {5, 2}]
SmallCharts == UNION {[1 .. n -> NoteUniverse] : n \in 0 .. MaxChartObjects}
NoteHeaders == {EmptyMap, "lnobj" :> <<0, 2>>}

\* charts of two channels, each with an object and a later one of the same value
RangeChannels == UNION {RANGES[j].start .. RANGES[j].end : j \in 1 .. Len(RANGES)}
PairChannels == RangeChannels \cup {2, 36, 72, 108, 252, 478}
Obj(channel, time, value) == [channel |-> channel, time |-> time, value |-> value]
PairChart(c1, c2) == <<Obj(c1, T0, 5), Obj(c2, T0, 5), Obj(c2, T1, 5), Obj(c1, T2, 5)>>
PairCharts == {PairChart(c[1], c[2]) : c \in {d \in PairChannels \X PairChannels : d[1] < d[2]}}
PairHeaders == {EmptyMap, "lnobj" :> <<35, 35, 35, 35>>}

InitNotes ==
    /\ sortImpl = "unset"
    /\ \/ objects \in SmallCharts /\ headers \in NoteHeaders
       \/ objects \in PairCharts /\ headers \in PairHeaders
    /\ time_signatures = EmptyMap
    /\ pc = "chart"
    /\ CompileIdle
    /\ NotesIdle
    /\ SweepIdle

NextNotes == Generate

SpecNotes == InitNotes /\ [][NextNotes]_vars

----------------------------------------------------------------------------
(* Properties of generate *)

Visible(channel) == (37 <= channel /\ channel <= 71) \/ (73 <= channel /\ channel <= 107)
LongChannel(channel) == (181 <= channel /\ channel <= 215) \/ (217 <= channel /\ channel <= 251)

\* the notes made from gen_objects[i]
NotesFrom(i) == {k \in 1 .. Len(notes) : origins[k] = i}

\* later objects of the channel of gen_objects[i] with value v
Later(i, v) ==
    {k \in 1 .. Len(gen_objects) :
        /\ gen_objects[k].channel = gen_objects[i].channel
        /\ gen_objects[k].value = v
        /\ BmsTime_lt(gen_objects[i].time, gen_objects[k].time)}

\* t is the position of the nearest object among S
Nearest(t, S) ==
    \E k \in S : /\ gen_objects[k].time = t
                 /\ \A m \in S : ~BmsTime_lt(gen_objects[m].time, t)

\* gen_objects[i] is emitted once, as a Long note ending at the nearest of S
LongToNearest(i, S) ==
    /\ Cardinality(NotesFrom(i)) = 1
    /\ \A k \in NotesFrom(i) :
          /\ notes[k].kind = "Long"
          /\ notes[k].time = gen_objects[i].time
          /\ notes[k].keysound = gen_objects[i].value
          /\ Nearest(notes[k].end_time, S)

\* C8: with LNOBJ = M a visible-channel object of value M gives no note, any
\* other visible-channel object with a later M in its channel gives a Long note
\* ending at the nearest one, and one with no later M gives a Normal note
C8_LnobjPromotion ==
    (pc = "generated" /\ Lnobj(headers) # -1) =>
        \A i \in 1 .. Len(gen_objects) :
            Visible(gen_objects[i].channel) =>
                LET M == Lnobj(headers)
                IN  IF gen_objects[i].value = M THEN NotesFrom(i) = {}
                    ELSE IF Later(i, M) # {} THEN LongToNearest(i, Later(i, M))
                    ELSE /\ Cardinality(NotesFrom(i)) = 1
                         /\ \A k \in NotesFrom(i) : notes[k].kind = "Normal"

\* an object followed by two markers in its channel became one Long note
C8_Witness ==
    /\ pc = "generated"
    /\ Lnobj(headers) = 2
    /\ Len(gen_objects) = 3
    /\ \A i \in 1 .. 3 : gen_objects[i].channel = 37
    /\ gen_objects[1].value = 5
    /\ Cardinality(Later(1, 2)) = 2
    /\ Len(notes) = 1
    /\ notes[1].kind = "Long"

\* C9: a long-note-channel object gives a Long note ending at the nearest later
\* object of its channel and value, and no note when there is none
C9_DedicatedChannelPairing ==
    pc = "generated" =>
        \A i \in 1 .. Len(gen_objects) :
            LongChannel(gen_objects[i].channel) =>
                IF Later(i, gen_objects[i].value) # {}
                THEN LongToNearest(i, Later(i, gen_objects[i].value))
                ELSE NotesFrom(i) = {}

\* three long-note objects of one value: two Long notes, none for the last, and
\* two at one position are not paired
C9_Witness ==
    /\ pc = "generated"
    /\ Len(gen_objects) = 3
    /\ \A i \in 1 .. 3 : gen_objects[i].channel = 181 /\ gen_objects[i].value = 5
    /\ gen_objects[1].time = gen_objects[2].time
    /\ Cardinality(Later(1, 5)) = 1
    /\ Len(notes) = 2

\* the channel a note was made from
ChannelOf(k) == gen_objects[origins[k]].channel

\* the four families of channels that get lanes
Family(channel) ==
    IF Visible(channel) THEN "visible"
    ELSE IF LongChannel(channel) THEN "long"
    ELSE IF (109 <= channel /\ channel <= 143) \/ (145 <= channel /\ channel <= 179)
         THEN "invisible"
    ELSE IF (469 <= channel /\ channel <= 477) \/ (505 <= channel /\ channel <= 513)
         THEN "landmine"
    ELSE "none"

\* C10 as stated: notes of different non-BGM channels never share a lane
C10_LanesDisjoint ==
    pc = "generated" =>
        \A k1, k2 \in 1 .. Len(notes) :
            (ChannelOf(k1) # ChannelOf(k2) /\ ChannelOf(k1) # 1 /\ ChannelOf(k2) # 1)
            => notes[k1].lane # notes[k2].lane

\* C10 amended: notes of different channels of one family never share a lane
C10_LanesInjectivePerFamily ==
    pc = "generated" =>
        \A k1, k2 \in 1 .. Len(notes) :
            (ChannelOf(k1) # ChannelOf(k2) /\ Family(ChannelOf(k1)) = Family(ChannelOf(k2))
                /\ Family(ChannelOf(k1)) # "none")
            => notes[k1].lane # notes[k2].lane

\* notes of the first 1P and the first 2P long-note channel were generated
C10_Witness ==
    /\ pc = "generated"
    /\ \E k1, k2 \in 1 .. Len(notes) :
          /\ ChannelOf(k1) = 181
          /\ ChannelOf(k2) = 217
          /\ notes[k1].lane = 0
          /\ notes[k2].lane = 35

\* C18: every Long note ends strictly later than it starts, at the position of
\* an object of its own channel in chart.objects
C18_LongEndsLaterOnSameChannel ==
    pc = "generated" =>
        \A k \in 1 .. Len(notes) :
            notes[k].kind = "Long" =>
                /\ BmsTime_lt(notes[k].time, notes[k].end_time)
                /\ \E m \in 1 .. Len(objects) :
                      /\ objects[m].channel = ChannelOf(k)
                      /\ objects[m].time = notes[k].end_time

\* a visible-channel object gave a Long note that ends at the marker of its
\* channel, past an object of another channel
C18_Witness ==
    /\ pc = "generated"
    /\ Len(notes) = 2
    /\ ChannelOf(1) = 37
    /\ notes[1].kind = "Long" /\ notes[1].time = T0 /\ notes[1].end_time = T2
    /\ ChannelOf(2) = 38
    /\ notes[2].kind = "Normal" /\ notes[2].time = T1

----------------------------------------------------------------------------
(* BmsNotes::find_seconds.  Positions and stop lengths are whole quarter     *)
(* notes, seconds are counted in milliseconds.                               *)

\* BmsTimeSeconds::new(60.0 / bpm), in milliseconds
QuarterNoteDuration(bpm) == 60000 \div bpm

Event(time, type, index, new_bpm, time_stopped) ==
    [time |-> time, type |-> type, index |-> index, new_bpm |-> new_bpm,
     time_stopped |-> time_stopped]

\* the first loop: PlayNote for each note, EndLongNote behind it when it is Long
RECURSIVE NoteEvents(_, _)
NoteEvents(ns, i) ==
    IF i > Len(ns) THEN <<>>
    ELSE <<Event(ns[i].time, "PlayNote", i, 0, 0)>>
         \o (IF ns[i].kind = "Long"
             THEN <<Event(ns[i].end_time, "EndLongNote", i, 0, 0)>>
             ELSE <<>>)
         \o NoteEvents(ns, i + 1)

\* the orders in which a HashMap may yield the keys S
Orders(S) ==
    {o \in [1 .. Cardinality(S) -> S] : \A i, j \in 1 .. Cardinality(S) : o[i] = o[j] => i = j}

\* impl PartialOrd for EventType, as a rank: hit and end, then tempo, then stop
EventTypeRank(type) ==
    IF type \in {"PlayNote", "EndLongNote"} THEN 0
    ELSE IF type = "ChangeBpm" THEN 1
    ELSE 2

\* impl PartialOrd for Event: time, then event_type
Event_lt(a, b) ==
    \/ a.time < b.time
    \/ a.time = b.time /\ EventTypeRank(a.type) < EventTypeRank(b.type)

NoRelease == -1     \* None in the second slot of hit_times

\* find_seconds on no notes: returns at once
FindSecondsEmpty ==
    /\ pc = "notes"
    /\ notes = <<>>
    /\ pc' = "sweep_returned"
    /\ UNCHANGED <<sortImpl, rng, rng_stack, skip_stack, headers, objects,
                   time_signatures, line, exPos, noteVars, sweepVars>>

\* .expect("Couldn't get BPM Change at tick 0 (???)")
FindSecondsNoInitialBpm ==
    /\ pc = "notes"
    /\ notes # <<>>
    /\ 0 \notin DOMAIN bpm_changes
    /\ pc' = "panic"
    /\ UNCHANGED <<sortImpl, rng, rng_stack, skip_stack, headers, objects,
                   time_signatures, line, exPos, noteVars, sweepVars>>

\* find_seconds up to the loop: the events in the order they are pushed
FindSecondsStart ==
    /\ pc = "notes"
    /\ notes # <<>>
    /\ 0 \in DOMAIN bpm_changes
    /\ \E bo \in Orders(DOMAIN bpm_changes \ {0}), so \in Orders(DOMAIN stops) :
          events' = NoteEvents(notes, 1)
                    \o [k \in 1 .. Len(bo) |-> Event(bo[k], "ChangeBpm", 0, bpm_changes[bo[k]], 0)]
                    \o [k \in 1 .. Len(so) |-> Event(so[k], "Stop", 0, 0, stops[so[k]])]
    /\ hit_times' = [i \in 1 .. Len(notes) |-> [hit |-> 0, release |-> NoRelease]]
    /\ current_quarter_note_duration' = QuarterNoteDuration(bpm_changes[0])
    /\ offset_time_quarter_notes' = 0
    /\ offset_time_seconds' = 0
    /\ next_event' = 0
    /\ pc' = "sweeping"
    /\ UNCHANGED <<sortImpl, rng, rng_stack, skip_stack, headers, objects,
                   time_signatures, line, exPos, noteVars, bpm_changes, stops,
                   scroll_changes>>

\* the event events.next() yields
NextEvent == events[next_event + 1]
HasNextEvent(type) ==
    /\ pc = "sweeping"
    /\ next_event < Len(events)
    /\ NextEvent.type = type

\* current_quarter_note_duration * (event.time - offset_time_quarter_notes)
Elapsed(event) ==
    current_quarter_note_duration * (event.time - offset_time_quarter_notes)

SweepPlayNote ==
    /\ HasNextEvent("PlayNote")
    /\ hit_times' = [hit_times EXCEPT ![NextEvent.index].hit =
                        Elapsed(NextEvent) + offset_time_seconds]
    /\ next_event' = next_event + 1
    /\ UNCHANGED <<sortImpl, rng, rng_stack, skip_stack, headers, objects, time_signatures,
                   pc, line, exPos, noteVars, bpm_changes, stops, scroll_changes, events,
                   current_quarter_note_duration, offset_time_quarter_notes,
                   offset_time_seconds>>

SweepEndLongNote ==
    /\ HasNextEvent("EndLongNote")
    /\ hit_times' = [hit_times EXCEPT ![NextEvent.index].release =
                        Elapsed(NextEvent) + offset_time_seconds]
    /\ next_event' = next_event + 1
    /\ UNCHANGED <<sortImpl, rng, rng_stack, skip_stack, headers, objects, time_signatures,
                   pc, line, exPos, noteVars, bpm_changes, stops, scroll_changes, events,
                   current_quarter_note_duration, offset_time_quarter_notes,
                   offset_time_seconds>>

SweepChangeBpm ==
    /\ HasNextEvent("ChangeBpm")
    /\ offset_time_seconds' = Elapsed(NextEvent)
    /\ offset_time_quarter_notes' = NextEvent.time
    /\ current_quarter_note_duration' = QuarterNoteDuration(NextEvent.new_bpm)
    /\ next_event' = next_event + 1
    /\ UNCHANGED <<sortImpl, rng, rng_stack, skip_stack, headers, objects, time_signatures,
                   pc, line, exPos, noteVars, bpm_changes, stops, scroll_changes, events, hit_times>>

SweepStop ==
    /\ HasNextEvent("Stop")
    /\ LET event_time == Elapsed(NextEvent)
           stop_duration == current_quarter_note_duration * NextEvent.time_stopped
       IN  offset_time_seconds' = event_time + stop_duration
    /\ offset_time_quarter_notes' = NextEvent.time
    /\ next_event' = next_event + 1
    /\ UNCHANGED <<sortImpl, rng, rng_stack, skip_stack, headers, objects, time_signatures,
                   pc, line, exPos, noteVars, bpm_changes, stops, scroll_changes, events, hit_times,
                   current_quarter_note_duration>>

\* self.hit_times = Some(hit_times)
FindSecondsReturn ==
    /\ pc = "sweeping"
    /\ next_event = Len(events)
    /\ pc' = "sweep_done"
    /\ UNCHANGED <<sortImpl, rng, rng_stack, skip_stack, headers, objects,
                   time_signatures, line, exPos, noteVars, sweepVars>>

\* the notes and the timing find_seconds is called with
SweepNoteSet ==
    {BmsNote(t, 0, "Normal", 1, 0) : t \in {2, 4, 6}}
    \cup {BmsNote(2, 0, "Long", 1, 4), BmsNote(2, 0, "Long", 1, 6), BmsNote(4, 0, "Long", 1, 6)}
SweepNotes ==
    {ns \in UNION {[1 .. n -> SweepNoteSet] : n \in 0 .. MaxNotes} :
        \A i \in 1 .. Len(ns) - 1 : ns[i].time <= ns[i + 1].time}
PartialMaps(K, V) == UNION {[D -> V] : D \in SUBSET K}
TempoMaps == PartialMaps({0, 2, 4}, {60, 120})
StopMaps == PartialMaps({2, 4}, {2})

InitSweep ==
    /\ sortImpl = "unset"
    /\ headers = EmptyMap
    /\ objects = <<>>
    /\ time_signatures = EmptyMap
    /\ CompileIdle
    /\ gen_objects = <<>>
    /\ origins = <<>>
    /\ notes \in SweepNotes
    /\ bpm_changes \in TempoMaps
    /\ stops \in StopMaps
    /\ scroll_changes = EmptyMap
    /\ events = <<>>
    /\ next_event = 0
    /\ current_quarter_note_duration = 0
    /\ offset_time_quarter_notes = 0
    /\ offset_time_seconds = 0
    /\ hit_times = <<>>
    /\ pc = "notes"

NextSweep ==
    \/ FindSecondsEmpty
    \/ FindSecondsNoInitialBpm
    \/ FindSecondsStart
    \/ SweepPlayNote
    \/ SweepEndLongNote
    \/ SweepChangeBpm
    \/ SweepStop
    \/ FindSecondsReturn

SpecSweep == InitSweep /\ [][NextSweep]_vars

----------------------------------------------------------------------------
(* Properties of find_seconds *)

\* the tempo in force in the quarter note that starts at q
BpmAt(q) ==
    LET before == {p \in DOMAIN bpm_changes : p <= q}
        latest == CHOOSE p \in before : \A r \in before : r <= p
    IN  bpm_changes[latest]

\* the sum over the tempo segments before p of length * 60 / BPM, in milliseconds
RECURSIVE TempoSum(_)
TempoSum(p) == IF p = 0 THEN 0 ELSE TempoSum(p - 1) + 60000 \div BpmAt(p - 1)

\* C6: with tempo changes and no stops every note is hit at the sum of its
\* tempo segments: tempo 120 at 0 and 60 at 4 give 1.0 s at 2 and 4.0 s at 6
C6_TempoSweep ==
    (pc = "sweep_done" /\ stops = EmptyMap) =>
        \A i \in 1 .. Len(notes) : hit_times[i].hit = TempoSum(notes[i].time)

\* C7: the events are processed in ascending position, and at one position hit
\* and end events before tempo changes before stops
C7_EventsInOrder ==
    pc \in {"sweeping", "sweep_done"} =>
        \A i, j \in 1 .. Len(events) : i < j => ~Event_lt(events[j], events[i])

\* C17: a tempo-change event adds elapsed = quarter-note duration * (event
\* position - offset position) to the offset seconds and a stop event adds
\* elapsed + quarter-note duration * stop length, so the offset seconds are the
\* sum of all contributions so far; both set the offset position to the event
\* position, a tempo change replaces the quarter-note duration and a stop
\* leaves it unchanged
C17_OffsetSecondsAccumulate ==
    [][(pc = "sweeping" /\ next_event' = next_event + 1) =>
        LET event == events[next_event + 1]
            elapsed == current_quarter_note_duration
                       * (event.time - offset_time_quarter_notes)
        IN  /\ event.type = "ChangeBpm" =>
                  /\ offset_time_seconds' = offset_time_seconds + elapsed
                  /\ offset_time_quarter_notes' = event.time
                  /\ current_quarter_note_duration' = QuarterNoteDuration(event.new_bpm)
            /\ event.type = "Stop" =>
                  /\ offset_time_seconds' = offset_time_seconds + elapsed
                         + current_quarter_note_duration * event.time_stopped
                  /\ offset_time_quarter_notes' = event.time
                  /\ current_quarter_note_duration' = current_quarter_note_duration
       ]_vars

----------------------------------------------------------------------------
(* generate_timings (timing.rs).  A header key is its text with the case    *)
(* folded, a header value its text, both as sequences of characters.        *)

UnicodeDigit == 37                      \* a decimal digit that is not ASCII 0-9

\* the literal prefixes "bpm", "stop" and "scroll" of the three expressions
BpmPrefix == <<11, 25, 22>>
StopPrefix == <<28, 29, 24, 25>>
ScrollPrefix == <<28, 12, 27, 24, 21, 21>>

\* the class \d: an ASCII digit or another decimal digit
IsDigit(c) == c \in 0 .. 9 \/ c = UnicodeDigit

\* regex.captures(&lowercase_key) for ^prefix(\d{2})$: group 1, <<>> for no match
Captures(prefix, key) ==
    IF /\ Len(key) = Len(prefix) + 2
       /\ SubSeq(key, 1, Len(prefix)) = prefix
       /\ IsDigit(key[Len(prefix) + 1])
       /\ IsDigit(key[Len(prefix) + 2])
    THEN SubSeq(key, Len(prefix) + 1, Len(key))
    ELSE <<>>

F64Err == -1                            \* Err of str::parse::<f64>
F64Special == -2                        \* the values inf and NaN

\* the decimal value of a text of ASCII digits
RECURSIVE DecimalFrom(_, _)
DecimalFrom(text, acc) ==
    IF text = <<>> THEN acc ELSE DecimalFrom(Tail(text), acc * 10 + Head(text))

\* str::parse::<f64>(text) of a text without sign, point or exponent
ParseF64(text) ==
    IF text # <<>> /\ \A i \in 1 .. Len(text) : text[i] \in 0 .. 9
    THEN DecimalFrom(text, 0)
    ELSE IF text \in {<<18, 23, 15>>, <<23, 10, 23>>, <<18, 23, 15, 18, 23, 18, 29, 34>>}
    THEN F64Special
    ELSE F64Err

\* the keys of h that the expression matches and whose id decodes
IdKeys(h, prefix) ==
    {key \in DOMAIN h :
        Captures(prefix, key) # <<>> /\ ParseRadix36(Captures(prefix, key)) # -1}

\* regex_header_thing(headers, regex): None, or the map id -> value
RegexHeaderThing(h, prefix) ==
    IF \E key \in IdKeys(h, prefix) : ParseF64(h[key]) = F64Err
    THEN [some |-> FALSE]
    ELSE [some |-> TRUE,
          ids |-> [id \in {ParseRadix36(Captures(prefix, key)) : key \in IdKeys(h, prefix)} |->
                      ParseF64(h[CHOOSE key \in IdKeys(h, prefix) :
                                    ParseRadix36(Captures(prefix, key)) = id])]]

\* BigUint::from(value).to_str_radix(36): the digits without leading zeros
RECURSIVE ToStrRadix36(_)
ToStrRadix36(value) ==
    IF value < 36 THEN <<value>> ELSE Append(ToStrRadix36(value \div 36), value % 36)

\* u8::from_str_radix(text, 16): -1 stands for Err
RECURSIVE Radix16From(_, _)
Radix16From(text, acc) ==
    IF text = <<>> THEN acc
    ELSE IF Head(text) >= 16 \/ acc * 16 + Head(text) > 255 THEN -1
    ELSE Radix16From(Tail(text), acc * 16 + Head(text))

\* a re-parse that reads the value as the number it already is
InlineBpmBase36(value) == value

\* the tempo of a channel-03 object: its value written in base 36, read in base 16
InlineBpm(value) == Radix16From(ToStrRadix36(value), 0)

\* iter().filter(pred).map(|object| (object.time, f(object))).collect(): a later
\* entry replaces an earlier one with the same key
RECURSIVE Collect(_, _)
Collect(entries, acc) ==
    IF entries = <<>> THEN acc
    ELSE Collect(Tail(entries), (Head(entries).time :> Head(entries).val) @@ acc)

Entry(time, val) == [time |-> time, val |-> val]

\* the objects that pass the filter of bpm_changes, in order
TempoObjects(objs, bpm_ids) ==
    SelectSeq(objs, LAMBDA o : o.channel = 3 \/ (o.channel = 8 /\ o.value \in DOMAIN bpm_ids))

\* the entries the map closure of bpm_changes yields
TempoEntries(objs, bpm_ids) ==
    LET sel == TempoObjects(objs, bpm_ids)
    IN  [k \in 1 .. Len(sel) |->
            Entry(sel[k].time,
                  IF sel[k].channel = 3 THEN InlineBpm(sel[k].value)
                  ELSE bpm_ids[sel[k].value])]

\* the entries of the objects of one channel whose value is an id of ids
IdEntries(objs, channel, ids) ==
    LET sel == SelectSeq(objs, LAMBDA o : o.channel = channel /\ o.value \in DOMAIN ids)
    IN  [k \in 1 .. Len(sel) |-> Entry(sel[k].time, ids[sel[k].value])]

\* .unwrap() of the re-parse fails for some channel-03 object
UnwrapFails(objs) ==
    \E i \in 1 .. Len(objs) : objs[i].channel = 3 /\ InlineBpm(objs[i].value) = -1

\* the three calls of regex_header_thing
HeaderIds(h) ==
    [bpm |-> RegexHeaderThing(h, BpmPrefix),
     stop |-> RegexHeaderThing(h, StopPrefix),
     scroll |-> RegexHeaderThing(h, ScrollPrefix)]

AllSome(ids) == ids.bpm.some /\ ids.stop.some /\ ids.scroll.some

TimingsUnchanged ==
    UNCHANGED <<sortImpl, rng, rng_stack, skip_stack, headers, objects, time_signatures,
                line, exPos, noteVars, events, next_event, current_quarter_note_duration,
                offset_time_quarter_notes, offset_time_seconds, hit_times>>

\* a header group holds an unparsable value: return None
GenerateTimingsHeaderErr ==
    /\ pc = "timing_chart"
    /\ ~AllSome(HeaderIds(headers))
    /\ pc' = "timing_none"
    /\ UNCHANGED <<bpm_changes, stops, scroll_changes>>
    /\ TimingsUnchanged

\* u8::from_str_radix(&bpm_str, 16).unwrap() on a value that is no base-16 text
GenerateTimingsUnwrapPanic ==
    /\ pc = "timing_chart"
    /\ AllSome(HeaderIds(headers))
    /\ UnwrapFails(objects)
    /\ pc' = "panic"
    /\ UNCHANGED <<bpm_changes, stops, scroll_changes>>
    /\ TimingsUnchanged

\* no tempo at the start and no parsable header BPM: return None
GenerateTimingsNoInitialBpm ==
    /\ pc = "timing_chart"
    /\ AllSome(HeaderIds(headers))
    /\ ~UnwrapFails(objects)
    /\ ZERO \notin DOMAIN Collect(TempoEntries(objects, HeaderIds(headers).bpm.ids), EmptyMap)
    /\ \/ BpmPrefix \notin DOMAIN headers
       \/ BpmPrefix \in DOMAIN headers /\ ParseF64(headers[BpmPrefix]) = F64Err
    /\ pc' = "timing_none"
    /\ UNCHANGED <<bpm_changes, stops, scroll_changes>>
    /\ TimingsUnchanged

\* Some(timing)
GenerateTimingsSome ==
    /\ pc = "timing_chart"
    /\ AllSome(HeaderIds(headers))
    /\ ~UnwrapFails(objects)
    /\ \E ids \in {HeaderIds(headers)} :
       \E collected \in {Collect(TempoEntries(objects, ids.bpm.ids), EmptyMap)} :
          /\ IF ZERO \in DOMAIN collected
             THEN bpm_changes' = collected
             ELSE /\ BpmPrefix \in DOMAIN headers
                  /\ ParseF64(headers[BpmPrefix]) # F64Err
                  /\ bpm_changes' = (ZERO :> ParseF64(headers[BpmPrefix])) @@ collected
          /\ stops' = Collect(IdEntries(objects, 9, ids.stop.ids), EmptyMap)
          /\ scroll_changes' = Collect(IdEntries(objects, 1020, ids.scroll.ids), EmptyMap)
    /\ pc' = "timing_some"
    /\ TimingsUnchanged

\* the charts generate_timings is called with: lists as update_objects leaves
\* them, values as compile decodes pairs, headers with a name and a value
Key(prefix, suffix) == prefix \o suffix
TempoUniverse == [channel : {3, 8}, time : {T0, T1}, value : {1, 10, 52, 260}]
TempoHeaders ==
    PartialMaps({BpmPrefix, Key(BpmPrefix, <<0, 1>>), Key(BpmPrefix, <<0, 10>>)},
                {<<6, 0>>, <<35, 35>>})
IdUniverse == [channel : {9, 1020}, time : {T0, T1}, value : {1, 10}]
IdHeaders ==
    {(BpmPrefix :> <<6, 0>>) @@ h :
        h \in PartialMaps({Key(StopPrefix, <<0, 1>>), Key(StopPrefix, <<0, 10>>),
                           Key(ScrollPrefix, <<0, 10>>),
                           Key(BpmPrefix, <<0, UnicodeDigit>>)},
                          {<<4, 8>>, <<35, 35>>})}
ListsOf(U) == UNION {[1 .. n -> U] : n \in 0 .. MaxTimingObjects}

InitTimings ==
    /\ sortImpl \in {"lt", "cmp"}
    /\ \/ objects \in ListsOf(TempoUniverse) /\ headers \in TempoHeaders
       \/ objects \in ListsOf(IdUniverse) /\ headers \in IdHeaders
    /\ UpdateObjects(sortImpl, objects) = objects
    /\ time_signatures = EmptyMap
    /\ pc = "timing_chart"
    /\ CompileIdle
    /\ NotesIdle
    /\ SweepIdle

NextTimings ==
    \/ GenerateTimingsHeaderErr
    \/ GenerateTimingsUnwrapPanic
    \/ GenerateTimingsNoInitialBpm
    \/ GenerateTimingsSome

SpecTimings == InitTimings /\ [][NextTimings]_vars

----------------------------------------------------------------------------
(* Properties of generate_timings *)

\* the two characters of a grid pair that compile decoded to value
PairOf(value) == <<value \div 36, value % 36>>

\* header prefix + the two-character base-36 id of value is defined and parsable
Defined(prefix, value) ==
    /\ Key(prefix, PairOf(value)) \in DOMAIN headers
    /\ ParseF64(headers[Key(prefix, PairOf(value))]) # F64Err

HeaderValue(prefix, value) == ParseF64(headers[Key(prefix, PairOf(value))])

\* no object behind objects[i] on one of the channels shares its position
LastAt(i, channels) ==
    \A j \in i + 1 .. Len(objects) :
        ~(objects[j].time = objects[i].time /\ objects[j].channel \in channels)

\* objects[i] gives a tempo: channel 03, or channel 08 with a defined BPMxx
GivesTempo(i) ==
    \/ objects[i].channel = 3
    \/ objects[i].channel = 8 /\ Defined(BpmPrefix, objects[i].value)

NoTempoAtStart == \A i \in 1 .. Len(objects) : ~(GivesTempo(i) /\ objects[i].time = ZERO)

HeaderBpmParses ==
    BpmPrefix \in DOMAIN headers /\ ParseF64(headers[BpmPrefix]) # F64Err

\* C11: a returned TimingModel has a tempo at position 0; when no channel-03 or
\* channel-08 object gives one it is the parsed header BPM, and when that
\* header is absent or unparsable generate_timings returns None
C11_InitialTempo ==
    /\ pc = "timing_some" => ZERO \in DOMAIN bpm_changes
    /\ (pc = "timing_some" /\ NoTempoAtStart)
          => (HeaderBpmParses /\ bpm_changes[ZERO] = ParseF64(headers[BpmPrefix]))
    /\ (pc # "timing_chart" /\ NoTempoAtStart /\ ~HeaderBpmParses) => pc = "timing_none"

\* C12: an object of channel 08 (09, SC) whose id has a parsable header BPMxx
\* (STOPxx, SCROLLxx), for any two-character base-36 suffix xx, has an entry at
\* its position in the TimingModel, with the value of the header when no later
\* object of the map's channels shares the position
C12_Base36SuffixLookup ==
    pc = "timing_some" =>
        \A i \in 1 .. Len(objects) :
            LET o == objects[i]
            IN  /\ (o.channel = 8 /\ Defined(BpmPrefix, o.value))
                      => /\ o.time \in DOMAIN bpm_changes
                         /\ LastAt(i, {3, 8})
                               => bpm_changes[o.time] = HeaderValue(BpmPrefix, o.value)
                /\ (o.channel = 9 /\ Defined(StopPrefix, o.value))
                      => /\ o.time \in DOMAIN stops
                         /\ LastAt(i, {9})
                               => stops[o.time] = HeaderValue(StopPrefix, o.value)
                /\ (o.channel = 1020 /\ Defined(ScrollPrefix, o.value))
                      => /\ o.time \in DOMAIN scroll_changes
                         /\ LastAt(i, {1020})
                               => scroll_changes[o.time] = HeaderValue(ScrollPrefix, o.value)

\* the base-16 reading of the two characters of a pair
Base16Reading(pair) == pair[1] * 16 + pair[2]

\* C13 as stated: the tempo recorded at the position of every channel-03 object
\* is the base-16 reading of its pair
C13_InlineTempoBase16 ==
    pc = "timing_some" =>
        \A i \in 1 .. Len(objects) :
            objects[i].channel = 3 =>
                /\ objects[i].time \in DOMAIN bpm_changes
                /\ bpm_changes[objects[i].time] = Base16Reading(PairOf(objects[i].value))

\* C13 amended: the same for every channel-03 object that no later object of
\* chart.objects giving a tempo (channel 03, or channel 08 with a defined
\* BPMxx) shares its position with
C13_LastInlineTempoBase16 ==
    pc = "timing_some" =>
        \A i \in 1 .. Len(objects) :
            (/\ objects[i].channel = 3
             /\ \A j \in i + 1 .. Len(objects) :
                   ~(GivesTempo(j) /\ objects[j].time = objects[i].time))
            => /\ objects[i].time \in DOMAIN bpm_changes
               /\ bpm_changes[objects[i].time] = Base16Reading(PairOf(objects[i].value))

\* the pairs 0A and 78 on channel 03 gave the tempos 10 and 120
C13_Witness ==
    /\ pc = "timing_some"
    /\ objects = <<Obj(3, T0, 10), Obj(3, T1, 260)>>
    /\ bpm_changes = (T0 :> 10) @@ (T1 :> 120)

\* C14: generate_timings on a compiled chart returns a TimingModel or None and
\* never panics, also for a channel-03 pair that is no base-16 text
C14_TimingsNeverPanic ==
    pc \in {"timing_chart", "timing_some", "timing_none"}

====
